---- MODULE Spec2Model ----
(***************************************************************************)
(* The two Playwright verification scripts of the repository,              *)
(* verification/verify_home.py and verification/verify_ui.py, as one state *)
(* machine.  One behaviour is one run of one script.  Every Playwright     *)
(* call that talks to the browser is a step that either returns or raises; *)
(* the step is logged in `calls`, so that the order of the steps, the      *)
(* files written and the messages printed can be stated as invariants.     *)
(*                                                                         *)
(* Calls that raise: launch, new_context, new_page, goto,                  *)
(* wait_for_load_state, expect(...).to_be_visible, click, keyboard.type    *)
(* and screenshot.  Locator construction (get_by_role, get_by_text,        *)
(* locator, nth, first) is local and does not raise; is_visible() and      *)
(* count() return a value; wait_for_timeout, print and browser.close()     *)
(* return normally.                                                        *)
(***************************************************************************)
EXTENDS Integers, Sequences, FiniteSets, TLC

VARIABLES
    script,      \* which script the process runs: "home" or "ui"
    pc,          \* position of the interpreter in the script
    calls,       \* the Playwright calls made so far, in order, with outcome
    stdout,      \* the messages the script printed
    stderr,      \* the traceback the interpreter prints for an uncaught error
    files,       \* the screenshot paths written so far, in order
    exc,         \* the exception in flight (NoExc when none)
    e,           \* verify_home.py: the exception bound by `except ... as e`
    browser,     \* "none", "open" or "closed"
    playwright,  \* the sync_playwright() context: "started" or "stopped"
    exitStatus   \* -1 while running, then the exit status of the process

vars == <<script, pc, calls, stdout, stderr, files, exc, e, browser,
          playwright, exitStatus>>

\* Largest number of elements the locator md-outlined-text-field may match.
MaxCount == 2

\* expect(fresh_picks).to_be_visible(timeout=10000)
FreshPicksTimeout == 10000

\* page.wait_for_timeout(1000)
SettleDelay == 1000

NoExc == [op |-> "", arg |-> "", kind |-> ""]

\* The errors a Playwright call raises, by the call.
Errors(op, arg) ==
    LET kinds == CASE op = "goto"                -> {"Error", "TimeoutError"}
                   [] op = "expect_visible"      -> {"AssertionError"}
                   [] op = "wait_for_load_state" -> {"TimeoutError"}
                   [] op = "click"               -> {"TimeoutError"}
                   [] OTHER                      -> {"Error"}
    IN  {[op |-> op, arg |-> arg, kind |-> k] : k \in kinds}

\* One entry of the call log.  nth is the index of the element chosen from a
\* locator (-1 when the call takes none), t a timeout or delay in ms (-1 when
\* none is passed), ret the value returned by is_visible() (0/1) or count().
Call(op, arg, nth, t, ok, ret) ==
    [op |-> op, arg |-> arg, nth |-> nth, t |-> t, ok |-> ok, ret |-> ret]

Msg(text, cause) == [text |-> text, cause |-> cause]

\* The call returns: it is logged and control moves on.
Returns(op, arg, nth, t, to) ==
    /\ calls' = Append(calls, Call(op, arg, nth, t, TRUE, -1))
    /\ pc' = to
    /\ exc' = exc

\* The call raises: it is logged, the exception is in flight and control is
\* transferred to `handler`.
Raises(op, arg, nth, t, handler) ==
    \E err \in Errors(op, arg) :
        /\ calls' = Append(calls, Call(op, arg, nth, t, FALSE, -1))
        /\ pc' = handler
        /\ exc' = err

Init ==
    /\ script \in {"home", "ui"}
    /\ pc = "launch"
    /\ calls = <<>>
    /\ stdout = <<>>
    /\ stderr = <<>>
    /\ files = <<>>
    /\ exc = NoExc
    /\ e = NoExc
    /\ browser = "none"
    /\ playwright = "started"
    /\ exitStatus = -1

(***************************************************************************)
(* verification/verify_home.py                                             *)
(***************************************************************************)

\* browser = p.chromium.launch(headless=True), outside the try statement
home_launch ==
    /\ script = "home" /\ pc = "launch"
    /\ \/ /\ Returns("launch", "chromium", -1, -1, "new_page")
          /\ browser' = "open"
       \/ /\ Raises("launch", "chromium", -1, -1, "with_exit")
          /\ browser' = browser
    /\ UNCHANGED <<script, stdout, stderr, files, e, playwright, exitStatus>>

\* page = browser.new_page(), outside the try statement
home_new_page ==
    /\ script = "home" /\ pc = "new_page"
    /\ \/ Returns("new_page", "", -1, -1, "goto")
       \/ Raises("new_page", "", -1, -1, "with_exit")
    /\ UNCHANGED <<script, stdout, stderr, files, e, browser, playwright,
                   exitStatus>>

\* page.goto("http://localhost:3000/")
test_home_render_goto ==
    /\ script = "home" /\ pc = "goto"
    /\ \/ Returns("goto", "http://localhost:3000/", -1, -1, "expect_fresh_picks")
       \/ Raises("goto", "http://localhost:3000/", -1, -1, "except")
    /\ UNCHANGED <<script, stdout, stderr, files, e, browser, playwright,
                   exitStatus>>

\* expect(page.get_by_role("heading", name="Fresh Picks")).to_be_visible(timeout=10000)
test_home_render_fresh_picks ==
    /\ script = "home" /\ pc = "expect_fresh_picks"
    /\ \/ Returns("expect_visible", "heading:Fresh Picks", -1,
                  FreshPicksTimeout, "expect_discovery")
       \/ Raises("expect_visible", "heading:Fresh Picks", -1,
                 FreshPicksTimeout, "except")
    /\ UNCHANGED <<script, stdout, stderr, files, e, browser, playwright,
                   exitStatus>>

\* The Discovery Mix assertion does not abort the scenario when it fails.
test_home_render_discovery_soft ==
    /\ script = "home" /\ pc = "expect_discovery"
    /\ \/ Returns("expect_visible", "text:Discovery Mix", -1, -1, "expect_play_all")
       \/ /\ calls' = Append(calls, Call("expect_visible", "text:Discovery Mix",
                                         -1, -1, FALSE, -1))
          /\ pc' = "expect_play_all"
          /\ exc' = exc
    /\ UNCHANGED <<script, stdout, stderr, files, e, browser, playwright,
                   exitStatus>>

\* expect(page.get_by_text("Discovery Mix")).to_be_visible()
test_home_render_discovery ==
    /\ script = "home" /\ pc = "expect_discovery"
    /\ \/ Returns("expect_visible", "text:Discovery Mix", -1, -1, "expect_play_all")
       \/ Raises("expect_visible", "text:Discovery Mix", -1, -1, "except")
    /\ UNCHANGED <<script, stdout, stderr, files, e, browser, playwright,
                   exitStatus>>

\* The Play All assertion is not evaluated: control goes on to the screenshot
\* whether the button is visible or not.
test_home_render_play_all_unchecked ==
    /\ script = "home" /\ pc = "expect_play_all"
    /\ \E seen \in BOOLEAN :
          calls' = Append(calls, Call("expect_visible", "button:Play All",
                                      -1, -1, seen, -1))
    /\ pc' = "screenshot"
    /\ UNCHANGED <<script, stdout, stderr, files, exc, e, browser, playwright,
                   exitStatus>>

\* expect(page.get_by_role("button", name="Play All")).to_be_visible()
test_home_render_play_all ==
    /\ script = "home" /\ pc = "expect_play_all"
    /\ \/ Returns("expect_visible", "button:Play All", -1, -1, "screenshot")
       \/ Raises("expect_visible", "button:Play All", -1, -1, "except")
    /\ UNCHANGED <<script, stdout, stderr, files, e, browser, playwright,
                   exitStatus>>

\* page.screenshot(path="verification/home_screenshot.png", full_page=True)
test_home_render_screenshot ==
    /\ script = "home" /\ pc = "screenshot"
    /\ \/ /\ Returns("screenshot", "verification/home_screenshot.png", -1, -1,
                     "print_success")
          /\ files' = Append(files, "verification/home_screenshot.png")
       \/ /\ Raises("screenshot", "verification/home_screenshot.png", -1, -1,
                    "except")
          /\ files' = files
    /\ UNCHANGED <<script, stdout, stderr, e, browser, playwright, exitStatus>>

\* print("Verification script ran successfully.")
home_print_success ==
    /\ script = "home" /\ pc = "print_success"
    /\ stdout' = Append(stdout, Msg("Verification script ran successfully.", NoExc))
    /\ pc' = "finally"
    /\ UNCHANGED <<script, calls, stderr, files, exc, e, browser, playwright,
                   exitStatus>>

\* except Exception as e: print(f"Verification script failed: {e}")
home_except ==
    /\ script = "home" /\ pc = "except"
    /\ e' = exc
    /\ exc' = NoExc
    /\ stdout' = Append(stdout, Msg("Verification script failed: ", exc))
    /\ pc' = "error_screenshot"
    /\ UNCHANGED <<script, calls, stderr, files, browser, playwright, exitStatus>>

\* The handler does not capture the error screenshot.
home_error_screenshot_skipped ==
    /\ script = "home" /\ pc = "error_screenshot"
    /\ pc' = "finally"
    /\ UNCHANGED <<script, calls, stdout, stderr, files, exc, e, browser,
                   playwright, exitStatus>>

\* page.screenshot(path="verification/error_screenshot.png"), in the except
\* clause and not itself guarded: an error here leaves the handler.
home_error_screenshot ==
    /\ script = "home" /\ pc = "error_screenshot"
    /\ \/ /\ Returns("screenshot", "verification/error_screenshot.png", -1, -1,
                     "finally")
          /\ files' = Append(files, "verification/error_screenshot.png")
       \/ /\ Raises("screenshot", "verification/error_screenshot.png", -1, -1,
                    "finally")
          /\ files' = files
    /\ UNCHANGED <<script, stdout, stderr, e, browser, playwright, exitStatus>>

\* finally: browser.close(); an exception in flight is re-raised afterwards
home_finally ==
    /\ script = "home" /\ pc = "finally"
    /\ calls' = Append(calls, Call("close", "", -1, -1, TRUE, -1))
    /\ browser' = "closed"
    /\ pc' = "with_exit"
    /\ UNCHANGED <<script, stdout, stderr, files, exc, e, playwright, exitStatus>>

(***************************************************************************)
(* verification/verify_ui.py: run(playwright) has no try statement, so an  *)
(* error raised by any call leaves run() and the with statement.           *)
(***************************************************************************)

\* browser = playwright.chromium.launch(headless=True)
run_launch ==
    /\ script = "ui" /\ pc = "launch"
    /\ \/ /\ Returns("launch", "chromium", -1, -1, "new_context")
          /\ browser' = "open"
       \/ /\ Raises("launch", "chromium", -1, -1, "with_exit")
          /\ browser' = browser
    /\ UNCHANGED <<script, stdout, stderr, files, e, playwright, exitStatus>>

\* context = browser.new_context()
run_new_context ==
    /\ script = "ui" /\ pc = "new_context"
    /\ \/ Returns("new_context", "", -1, -1, "new_page")
       \/ Raises("new_context", "", -1, -1, "with_exit")
    /\ UNCHANGED <<script, stdout, stderr, files, e, browser, playwright,
                   exitStatus>>

\* page = context.new_page()
run_new_page ==
    /\ script = "ui" /\ pc = "new_page"
    /\ \/ Returns("new_page", "", -1, -1, "goto")
       \/ Raises("new_page", "", -1, -1, "with_exit")
    /\ UNCHANGED <<script, stdout, stderr, files, e, browser, playwright,
                   exitStatus>>

\* page.goto("http://localhost:3000")
run_goto ==
    /\ script = "ui" /\ pc = "goto"
    /\ \/ Returns("goto", "http://localhost:3000", -1, -1, "wait_for_load_state")
       \/ Raises("goto", "http://localhost:3000", -1, -1, "with_exit")
    /\ UNCHANGED <<script, stdout, stderr, files, e, browser, playwright,
                   exitStatus>>

\* page.wait_for_load_state("networkidle")
run_wait_for_load_state ==
    /\ script = "ui" /\ pc = "wait_for_load_state"
    /\ \/ Returns("wait_for_load_state", "networkidle", -1, -1, "home_png")
       \/ Raises("wait_for_load_state", "networkidle", -1, -1, "with_exit")
    /\ UNCHANGED <<script, stdout, stderr, files, e, browser, playwright,
                   exitStatus>>

\* page.screenshot(path="verification/home.png")
run_home_png ==
    /\ script = "ui" /\ pc = "home_png"
    /\ \/ /\ Returns("screenshot", "verification/home.png", -1, -1, "print_home")
          /\ files' = Append(files, "verification/home.png")
       \/ /\ Raises("screenshot", "verification/home.png", -1, -1, "with_exit")
          /\ files' = files
    /\ UNCHANGED <<script, stdout, stderr, e, browser, playwright, exitStatus>>

\* print("Home screenshot taken.")
run_print_home ==
    /\ script = "ui" /\ pc = "print_home"
    /\ stdout' = Append(stdout, Msg("Home screenshot taken.", NoExc))
    /\ pc' = "is_visible"
    /\ UNCHANGED <<script, calls, stderr, files, exc, e, browser, playwright,
                   exitStatus>>

\* search_tab = page.locator("md-navigation-tab").nth(1)
\* if search_tab.is_visible(): ... else: print("Search tab not found.")
run_is_visible ==
    /\ script = "ui" /\ pc = "is_visible"
    /\ \/ /\ calls' = Append(calls, Call("is_visible", "md-navigation-tab",
                                         1, -1, TRUE, 1))
          /\ pc' = "click_search_tab"
          /\ stdout' = stdout
       \/ /\ calls' = Append(calls, Call("is_visible", "md-navigation-tab",
                                         1, -1, TRUE, 0))
          /\ pc' = "wait_for_timeout_1"
          /\ stdout' = Append(stdout, Msg("Search tab not found.", NoExc))
    /\ UNCHANGED <<script, stderr, files, exc, e, browser, playwright,
                   exitStatus>>

\* The tab click is followed by a screenshot of its own.
run_click_search_tab_and_capture ==
    /\ script = "ui" /\ pc = "click_search_tab"
    /\ \/ /\ Returns("click", "md-navigation-tab", 1, -1, "wait_for_timeout_1")
          /\ files' = Append(files, "verification/search_tab.png")
       \/ /\ Raises("click", "md-navigation-tab", 1, -1, "with_exit")
          /\ files' = files
    /\ UNCHANGED <<script, stdout, stderr, e, browser, playwright, exitStatus>>

\* search_tab.click()
run_click_search_tab ==
    /\ script = "ui" /\ pc = "click_search_tab"
    /\ \/ Returns("click", "md-navigation-tab", 1, -1, "wait_for_timeout_1")
       \/ Raises("click", "md-navigation-tab", 1, -1, "with_exit")
    /\ UNCHANGED <<script, stdout, stderr, files, e, browser, playwright,
                   exitStatus>>

\* page.wait_for_timeout(1000), before search.png
run_wait_for_timeout_1 ==
    /\ script = "ui" /\ pc = "wait_for_timeout_1"
    /\ Returns("wait_for_timeout", "", -1, SettleDelay, "search_png")
    /\ UNCHANGED <<script, stdout, stderr, files, e, browser, playwright,
                   exitStatus>>

\* page.screenshot(path="verification/search.png")
run_search_png ==
    /\ script = "ui" /\ pc = "search_png"
    /\ \/ /\ Returns("screenshot", "verification/search.png", -1, -1,
                     "print_search")
          /\ files' = Append(files, "verification/search.png")
       \/ /\ Raises("screenshot", "verification/search.png", -1, -1, "with_exit")
          /\ files' = files
    /\ UNCHANGED <<script, stdout, stderr, e, browser, playwright, exitStatus>>

\* print("Search screenshot taken.")
run_print_search ==
    /\ script = "ui" /\ pc = "print_search"
    /\ stdout' = Append(stdout, Msg("Search screenshot taken.", NoExc))
    /\ pc' = "count"
    /\ UNCHANGED <<script, calls, stderr, files, exc, e, browser, playwright,
                   exitStatus>>

\* The import steps are attempted whatever count() returns.
run_count_ungated ==
    /\ script = "ui" /\ pc = "count"
    /\ \E n \in 0..MaxCount :
          calls' = Append(calls, Call("count", "md-outlined-text-field",
                                      -1, -1, TRUE, n))
    /\ pc' = "click_search_field"
    /\ UNCHANGED <<script, stdout, stderr, files, exc, e, browser, playwright,
                   exitStatus>>

\* search_field = page.locator("md-outlined-text-field")
\* if search_field.count() > 0: ... else: print("Search field not found.")
run_count ==
    /\ script = "ui" /\ pc = "count"
    /\ \E n \in 0..MaxCount :
          /\ calls' = Append(calls, Call("count", "md-outlined-text-field",
                                         -1, -1, TRUE, n))
          /\ IF n > 0
               THEN /\ pc' = "click_search_field"
                    /\ stdout' = stdout
               ELSE /\ pc' = "close"
                    /\ stdout' = Append(stdout, Msg("Search field not found.", NoExc))
    /\ UNCHANGED <<script, stderr, files, exc, e, browser, playwright,
                   exitStatus>>

\* search_field.first.click()
run_click_search_field ==
    /\ script = "ui" /\ pc = "click_search_field"
    /\ \/ Returns("click", "md-outlined-text-field", 0, -1, "type")
       \/ Raises("click", "md-outlined-text-field", 0, -1, "with_exit")
    /\ UNCHANGED <<script, stdout, stderr, files, e, browser, playwright,
                   exitStatus>>

\* page.keyboard.type("https://example.com/audio.mp3")
run_type ==
    /\ script = "ui" /\ pc = "type"
    /\ \/ Returns("type", "https://example.com/audio.mp3", -1, -1,
                  "wait_for_timeout_2")
       \/ Raises("type", "https://example.com/audio.mp3", -1, -1, "with_exit")
    /\ UNCHANGED <<script, stdout, stderr, files, e, browser, playwright,
                   exitStatus>>

\* page.wait_for_timeout(1000), before search_import.png
run_wait_for_timeout_2 ==
    /\ script = "ui" /\ pc = "wait_for_timeout_2"
    /\ Returns("wait_for_timeout", "", -1, SettleDelay, "search_import_png")
    /\ UNCHANGED <<script, stdout, stderr, files, e, browser, playwright,
                   exitStatus>>

\* page.screenshot(path="verification/search_import.png")
run_search_import_png ==
    /\ script = "ui" /\ pc = "search_import_png"
    /\ \/ /\ Returns("screenshot", "verification/search_import.png", -1, -1,
                     "print_search_import")
          /\ files' = Append(files, "verification/search_import.png")
       \/ /\ Raises("screenshot", "verification/search_import.png", -1, -1,
                    "with_exit")
          /\ files' = files
    /\ UNCHANGED <<script, stdout, stderr, e, browser, playwright, exitStatus>>

\* print("Search Import UI screenshot taken.")
run_print_search_import ==
    /\ script = "ui" /\ pc = "print_search_import"
    /\ stdout' = Append(stdout, Msg("Search Import UI screenshot taken.", NoExc))
    /\ pc' = "close"
    /\ UNCHANGED <<script, calls, stderr, files, exc, e, browser, playwright,
                   exitStatus>>

\* browser.close(), the last statement of run()
run_close ==
    /\ script = "ui" /\ pc = "close"
    /\ calls' = Append(calls, Call("close", "", -1, -1, TRUE, -1))
    /\ browser' = "closed"
    /\ pc' = "with_exit"
    /\ UNCHANGED <<script, stdout, stderr, files, exc, e, playwright, exitStatus>>

run ==
    \/ run_launch
    \/ run_new_context
    \/ run_new_page
    \/ run_goto
    \/ run_wait_for_load_state
    \/ run_home_png
    \/ run_print_home
    \/ run_is_visible
    \/ run_click_search_tab
    \/ run_wait_for_timeout_1
    \/ run_search_png
    \/ run_print_search
    \/ run_count
    \/ run_click_search_field
    \/ run_type
    \/ run_wait_for_timeout_2
    \/ run_search_import_png
    \/ run_print_search_import
    \/ run_close


\* Leaving `with sync_playwright() as p:`; the context manager stops the
\* driver and does not suppress an exception, which then ends the process
\* with a traceback and status 1.
with_exit ==
    /\ pc = "with_exit"
    /\ playwright' = "stopped"
    /\ stderr' = IF exc = NoExc THEN stderr
                 ELSE Append(stderr, Msg("Traceback (most recent call last): ", exc))
    /\ exitStatus' = IF exc = NoExc THEN 0 ELSE 1
    /\ pc' = "exit"
    /\ UNCHANGED <<script, calls, stdout, files, exc, e, browser>>

test_home_render ==
    \/ test_home_render_goto
    \/ test_home_render_fresh_picks
    \/ test_home_render_discovery
    \/ test_home_render_play_all
    \/ test_home_render_screenshot

verify_home ==
    \/ home_launch
    \/ home_new_page
    \/ test_home_render
    \/ home_print_success
    \/ home_except
    \/ home_error_screenshot
    \/ home_finally

Next ==
    \/ verify_home
    \/ run
    \/ with_exit

Spec == Init /\ [][Next]_vars
(***************************************************************************)
(* Vocabulary of the properties                                            *)
(***************************************************************************)

Done == pc = "exit"

\* The run has ended and no call raised.
Passed == Done /\ \A i \in DOMAIN calls : calls[i].ok

Written == {files[i] : i \in DOMAIN files}

Printed(text) == \E i \in DOMAIN stdout : stdout[i].text = text

IndexesOf(op, arg) ==
    {i \in DOMAIN calls : calls[i].op = op /\ calls[i].arg = arg}

Attempted(op, arg) == IndexesOf(op, arg) # {}

Returned(op, arg) == \E i \in IndexesOf(op, arg) : calls[i].ok

Raised(op, arg) == \E i \in IndexesOf(op, arg) : ~calls[i].ok

CloseCalls == Cardinality({i \in DOMAIN calls : calls[i].op = "close"})

\* The paths of the screenshots taken when a scenario goes well.
SuccessArtifacts ==
    {"verification/home_screenshot.png", "verification/home.png",
     "verification/search.png", "verification/search_import.png"}

\* Position of path f in `files`, 0 when it was not written.
WrittenAt(f) ==
    IF f \in Written THEN CHOOSE i \in DOMAIN files : files[i] = f ELSE 0

\* The value search_field.count() returned, -1 before the call.
FieldCount ==
    LET c == {i \in DOMAIN calls : calls[i].op = "count"}
    IN  IF c = {} THEN -1 ELSE calls[CHOOSE i \in c : TRUE].ret

\* The calls made after search_field.count().
AfterCount ==
    LET c == {i \in DOMAIN calls : calls[i].op = "count"}
    IN  IF c = {} THEN <<>>
        ELSE SubSeq(calls, (CHOOSE i \in c : TRUE) + 1, Len(calls))

\* The steps of test_home_render, in the order of the source.
HomeSteps ==
    << <<"goto", "http://localhost:3000/">>,
       <<"expect_visible", "heading:Fresh Picks">>,
       <<"expect_visible", "text:Discovery Mix">>,
       <<"expect_visible", "button:Play All">>,
       <<"screenshot", "verification/home_screenshot.png">> >>

\* The calls test_home_render has made so far.
HomeTrace ==
    SelectSeq(calls, LAMBDA c : \E k \in DOMAIN HomeSteps :
                                    <<c.op, c.arg>> = HomeSteps[k])

\* Heading, text and button were each observed visible, in that order.
AllThreeVisible ==
    \E i, j, k \in DOMAIN calls :
        /\ i < j /\ j < k
        /\ calls[i].op = "expect_visible" /\ calls[i].arg = "heading:Fresh Picks"
        /\ calls[j].op = "expect_visible" /\ calls[j].arg = "text:Discovery Mix"
        /\ calls[k].op = "expect_visible" /\ calls[k].arg = "button:Play All"
        /\ calls[i].ok /\ calls[j].ok /\ calls[k].ok

SuccessReported ==
    /\ Printed("Verification script ran successfully.")
    /\ "verification/home_screenshot.png" \in Written

\* The calls that are steps of a scenario (what runs after the page exists
\* and before the browser is closed).
ScenarioOps ==
    {"goto", "wait_for_load_state", "expect_visible", "click", "type"}

\* A wait for a condition of the page, as opposed to a fixed delay or a query.
ConditionWaits == {"expect_visible", "wait_for_load_state"}

\* The calls that change what the page shows.
PageChanging == {"goto", "click", "type"}

\* Call i has a condition-based wait of its own: one that returned after the
\* last call that changed the page.
Gated(i) ==
    \E j \in 1..(i - 1) :
        /\ calls[j].op \in ConditionWaits /\ calls[j].ok
        /\ \A k \in (j + 1)..(i - 1) : calls[k].op \notin PageChanging

(***************************************************************************)
(* C1                                                                      *)
(***************************************************************************)

\* C1: in every finished run of either script in which the browser was
\* launched, browser.close() was called exactly once, whichever step raised.
C1_ClosedExactlyOnce ==
    (Done /\ Returned("launch", "chromium")) => CloseCalls = 1

(***************************************************************************)
(* C2                                                                      *)
(***************************************************************************)

\* C2, as stated: when a run of verify_home.py has ended, exactly one of
\* home_screenshot.png and error_screenshot.png has been written.
C2_ExactlyOneArtifact ==
    (script = "home" /\ Done) =>
        (("verification/home_screenshot.png" \in Written)
            # ("verification/error_screenshot.png" \in Written))

\* C2, amended: a run of verify_home.py never writes both artifacts, and when
\* it has ended it has written neither exactly when the launch, the page
\* creation or the error screenshot call raised.
C2_AtMostOneArtifact ==
    script = "home" =>
        /\ ~ ("verification/home_screenshot.png" \in Written
                /\ "verification/error_screenshot.png" \in Written)
        /\ Len(files) <= 1
        /\ Done =>
             ((Written = {}) <=>
                 \/ Raised("launch", "chromium")
                 \/ Raised("new_page", "")
                 \/ Raised("screenshot", "verification/error_screenshot.png"))

\* The success screenshot raised and the error screenshot was written.
C2_Witness ==
    /\ script = "home" /\ Done
    /\ Raised("screenshot", "verification/home_screenshot.png")
    /\ Written = {"verification/error_screenshot.png"}

(***************************************************************************)
(* C3                                                                      *)
(***************************************************************************)

\* C3: no error leaves the script: every finished run ended with no exception
\* in flight and exit status 0.
C3_ExitsZero ==
    Done => (exc = NoExc /\ exitStatus = 0)

(***************************************************************************)
(* C4                                                                      *)
(***************************************************************************)

\* C4, as stated: a run of either script writes at most two screenshot files.
C4_AtMostTwoFiles ==
    Len(files) <= 2

\* C4, amended: a run of verify_home.py writes at most two screenshot files
\* and a run of verify_ui.py at most three.
C4_AtMostThreeFiles ==
    /\ script = "home" => Len(files) <= 2
    /\ script = "ui" => Len(files) <= 3

\* A run of verify_ui.py that wrote home.png, search.png and search_import.png.
C4_Witness ==
    /\ script = "ui" /\ Done
    /\ files = <<"verification/home.png", "verification/search.png",
                 "verification/search_import.png">>

(***************************************************************************)
(* C5                                                                      *)
(***************************************************************************)

\* What C5 says of a count() of zero: "Search field not found." is printed,
\* nothing is called after count() but browser.close(), no error is raised and
\* the browser is closed when the run has ended.
C5_NoFieldSkips ==
    FieldCount = 0 =>
        /\ Printed("Search field not found.")
        /\ \A i \in DOMAIN AfterCount : AfterCount[i].op = "close"
        /\ exc = NoExc
        /\ Done => (CloseCalls = 1 /\ browser = "closed" /\ exitStatus = 0)

\* C5, as stated: in verify_ui.py a count() of zero skips the import steps
\* without an error, and a count() above zero has, when the run has ended,
\* the first match clicked, the URL typed and search_import.png written after
\* search.png.
C5_SearchFieldGate ==
    script = "ui" =>
        /\ C5_NoFieldSkips
        /\ (FieldCount > 0 /\ Done) =>
             /\ ~ Printed("Search field not found.")
             /\ \E i \in IndexesOf("click", "md-outlined-text-field") :
                   calls[i].nth = 0 /\ calls[i].ok
             /\ Returned("type", "https://example.com/audio.mp3")
             /\ 0 < WrittenAt("verification/search.png")
             /\ WrittenAt("verification/search.png")
                  < WrittenAt("verification/search_import.png")

\* C5, amended: a count() of zero is as stated; a count() above zero never
\* prints "Search field not found." and has the first match clicked as the
\* next call, the URL typed next if the click returned, the 1000 ms wait and
\* the search_import.png screenshot next if the typing returned, and
\* search_import.png written after search.png if that screenshot returned.
C5_SearchFieldGateUnlessRaised ==
    script = "ui" =>
        /\ C5_NoFieldSkips
        /\ FieldCount > 0 =>
             /\ ~ Printed("Search field not found.")
             /\ \A i \in DOMAIN AfterCount :
                   /\ i = 1 => /\ AfterCount[i].op = "click"
                               /\ AfterCount[i].arg = "md-outlined-text-field"
                               /\ AfterCount[i].nth = 0
                   /\ i = 2 => /\ AfterCount[1].ok
                               /\ AfterCount[i].op = "type"
                               /\ AfterCount[i].arg = "https://example.com/audio.mp3"
                   /\ i = 3 => /\ AfterCount[2].ok
                               /\ AfterCount[i].op = "wait_for_timeout"
                   /\ i = 4 => /\ AfterCount[i].op = "screenshot"
                               /\ AfterCount[i].arg = "verification/search_import.png"
                   /\ i = 5 => AfterCount[4].ok /\ AfterCount[i].op = "close"
                   /\ i <= 5
             /\ Done =>
                  /\ Len(AfterCount) >= 1
                  /\ AfterCount[1].ok => Len(AfterCount) >= 2
                  /\ (Len(AfterCount) >= 2 /\ AfterCount[2].ok) =>
                        Len(AfterCount) >= 4
                  /\ (Len(AfterCount) >= 4 /\ AfterCount[4].ok) =>
                        /\ 0 < WrittenAt("verification/search.png")
                        /\ WrittenAt("verification/search.png")
                             < WrittenAt("verification/search_import.png")
                        /\ CloseCalls = 1

\* A finished run of verify_ui.py in which the locator matched nothing.
C5_Witness ==
    /\ script = "ui" /\ Done /\ FieldCount = 0
    /\ Printed("Search field not found.")
    /\ CloseCalls = 1
    /\ "verification/search.png" \in Written

(***************************************************************************)
(* C6                                                                      *)
(***************************************************************************)

\* C6, as stated: when a run of verify_home.py has ended, the success message
\* was printed and home_screenshot.png written if and only if the heading,
\* the text and the button were observed visible in that order; the success
\* and the failure message are never both printed.
C6_SuccessIffAllVisible ==
    script = "home" =>
        /\ Done => (SuccessReported <=> AllThreeVisible)
        /\ ~ (Printed("Verification script ran successfully.")
                /\ Printed("Verification script failed: "))

\* C6, amended: ... if and only if the three were observed visible in that
\* order and the home_screenshot.png capture did not raise; the success and
\* the failure message are never both printed.
C6_SuccessIffAllVisibleAndCaptured ==
    script = "home" =>
        /\ Done => (SuccessReported <=>
                      (AllThreeVisible
                        /\ ~ Raised("screenshot", "verification/home_screenshot.png")))
        /\ ~ (Printed("Verification script ran successfully.")
                /\ Printed("Verification script failed: "))

\* A passing run of verify_home.py.
C6_Witness ==
    /\ script = "home" /\ Done
    /\ AllThreeVisible
    /\ SuccessReported
    /\ ~ Printed("Verification script failed: ")

(***************************************************************************)
(* C7                                                                      *)
(***************************************************************************)

\* C7: when a step of verify_home.py failed and the capture of
\* error_screenshot.png failed too, the run has ended without an uncaught
\* exception, the message printed carries the cause of the step failure,
\* and the browser was closed.
C7_ErrorScreenshotFailureSwallowed ==
    (script = "home" /\ Done
        /\ Raised("screenshot", "verification/error_screenshot.png")) =>
        /\ exc = NoExc /\ exitStatus = 0
        /\ \E i \in DOMAIN stdout :
              /\ stdout[i].text = "Verification script failed: "
              /\ stdout[i].cause = e
              /\ stdout[i].cause.arg # "verification/error_screenshot.png"
        /\ CloseCalls = 1

(***************************************************************************)
(* C8                                                                      *)
(***************************************************************************)

\* C8: in a finished run of either script, every scenario step that raised
\* is followed by a screenshot attempt at a path that is no success artifact,
\* and a console message carries the cause of the failure.
C8_FailureCapturedAndReported ==
    Done =>
        \A i \in DOMAIN calls :
            (calls[i].op \in ScenarioOps /\ ~ calls[i].ok) =>
                /\ \E j \in DOMAIN calls :
                      /\ j > i
                      /\ calls[j].op = "screenshot"
                      /\ calls[j].arg \notin SuccessArtifacts
                /\ \E m \in DOMAIN stdout \cup DOMAIN stderr :
                      \/ /\ m \in DOMAIN stdout
                         /\ stdout[m].cause.op = calls[i].op
                         /\ stdout[m].cause.arg = calls[i].arg
                      \/ /\ m \in DOMAIN stderr
                         /\ stderr[m].cause.op = calls[i].op
                         /\ stderr[m].cause.arg = calls[i].arg

(***************************************************************************)
(* C9                                                                      *)
(***************************************************************************)

\* C9: the calls of test_home_render are made in the order of the source,
\* only the last one made can have failed (no assertion and no success
\* screenshot follows a failed step), and a finished run in which a step
\* failed has called browser.close(), after the failed step.
C9_FailFastThenClose ==
    script = "home" =>
        /\ Len(HomeTrace) <= Len(HomeSteps)
        /\ \A i \in DOMAIN HomeTrace :
              /\ <<HomeTrace[i].op, HomeTrace[i].arg>> = HomeSteps[i]
              /\ ~ HomeTrace[i].ok => i = Len(HomeTrace)
        /\ \A i \in DOMAIN calls :
              (Done /\ calls[i].op \in ScenarioOps /\ ~ calls[i].ok) =>
                  /\ CloseCalls = 1
                  /\ \E j \in DOMAIN calls : j > i /\ calls[j].op = "close"
                  /\ "verification/home_screenshot.png" \notin Written

\* The Discovery Mix assertion failed and the browser was closed.
C9_Witness ==
    /\ script = "home" /\ Done
    /\ Raised("expect_visible", "text:Discovery Mix")
    /\ ~ Attempted("expect_visible", "button:Play All")
    /\ ~ Attempted("screenshot", "verification/home_screenshot.png")
    /\ CloseCalls = 1

(***************************************************************************)
(* C10                                                                     *)
(***************************************************************************)

\* C10: in a passing run, (verify_home.py) the Discovery Mix and Play All
\* assertions and the screenshot come after the Fresh Picks wait of 10000 ms
\* has returned, (verify_ui.py) home.png comes after the network-idle wait
\* has returned, and every click has a condition-based wait of its own: one
\* that returned after the last call that changed the page.
C10_ReadinessGates ==
    Passed =>
        \A i \in DOMAIN calls :
            /\ (script = "home" /\ calls[i].op \in {"expect_visible", "screenshot"}
                  /\ calls[i].arg # "heading:Fresh Picks") =>
                  \E j \in 1..(i - 1) :
                      /\ calls[j].op = "expect_visible"
                      /\ calls[j].arg = "heading:Fresh Picks"
                      /\ calls[j].t = FreshPicksTimeout
                      /\ calls[j].ok
            /\ (script = "ui" /\ calls[i].op = "screenshot") =>
                  \E j \in 1..(i - 1) :
                      /\ calls[j].op = "wait_for_load_state"
                      /\ calls[j].arg = "networkidle"
                      /\ calls[j].ok
            /\ (script = "ui" /\ calls[i].op = "click") => Gated(i)

====
